---- MODULE Spec2Model ----
(***************************************************************************)
(* Lightning Time (src/src/lib.rs, src/src/main.rs): the conversions       *)
(* between a time of day (chrono::NaiveTime), the five hexadecimal digits  *)
(* of a LightningTime, its text form and its colors.                       *)
(*                                                                         *)
(* The conversions compute in f64.  TLC's integers are 32 bits wide, so a  *)
(* non-negative f64 is modelled as a mantissa held as a sequence of bits   *)
(* (most significant first) and a binary exponent, and every f64 operation *)
(* rounds its exact result to 53 significant bits, ties to even, as        *)
(* IEEE-754 binary64 does.                                                 *)
(***************************************************************************)
EXTENDS Integers, Sequences, FiniteSets, TLC

(***************************************************************************)
(* Unbounded naturals as bit sequences, most significant bit first.  The   *)
(* arithmetic works on limbs of LimbBits bits, so that a step's            *)
(* intermediate value stays below 2^31 for operands below 2^21.            *)
(***************************************************************************)
LimbBits == 10

LimbBase == 1024

Pow2 == <<1, 2, 4, 8, 16, 32, 64, 128, 256, 512, 1024, 2048, 4096, 8192, 16384,
          32768, 65536, 131072, 262144, 524288, 1048576, 2097152, 4194304,
          8388608, 16777216, 33554432, 67108864, 134217728, 268435456,
          536870912, 1073741824>>

Zeros(k) == [i \in 1..k |-> 0]

StripZeros(b) ==
    IF \A i \in 1..Len(b) : b[i] = 0 THEN <<>>
    ELSE LET f == CHOOSE i \in 1..Len(b) : b[i] = 1 /\ \A j \in 1..(i - 1) : b[j] = 0
         IN  SubSeq(b, f, Len(b))

\* The bits of an integer 0 <= n < 2^31
NatBits(n) == StripZeros([i \in 1..31 |-> (n \div Pow2[32 - i]) % 2])

\* The integer of the first i bits of b, below 2^31
RECURSIVE BitsPrefix(_, _)
BitsPrefix(b, i) == IF i = 0 THEN 0 ELSE 2 * BitsPrefix(b, i - 1) + b[i]

\* The integer of at most 31 bits
BitsNat(b) == BitsPrefix(b, Len(b))

\* b followed by k zero bits: b * 2^k.
ShiftLeft(b, k) == IF b = <<>> THEN <<>> ELSE b \o Zeros(k)

\* b without its last k bits: floor(b / 2^k).
ShiftRight(b, k) == IF k >= Len(b) THEN <<>> ELSE SubSeq(b, 1, Len(b) - k)

\* The limb of the LimbBits bits of p from position k on
LimbAt(p, k) ==
    p[k] * 512 + p[k + 1] * 256 + p[k + 2] * 128 + p[k + 3] * 64 + p[k + 4] * 32
        + p[k + 5] * 16 + p[k + 6] * 8 + p[k + 7] * 4 + p[k + 8] * 2 + p[k + 9]

\* b as n limbs, most significant first
Limbs(b, n) ==
    LET p == Zeros(n * LimbBits - Len(b)) \o b
    IN  [j \in 1..n |-> LimbAt(p, (j - 1) * LimbBits + 1)]

LimbCount(b) == (Len(b) + LimbBits - 1) \div LimbBits

FromLimbs(ls) ==
    StripZeros([i \in 1..(LimbBits * Len(ls)) |->
        (ls[(i - 1) \div LimbBits + 1] \div Pow2[LimbBits - ((i - 1) % LimbBits)]) % 2])

\* The limbs of a[1..i] + b[1..i] + c, one limb longer
RECURSIVE AddCarry(_, _, _, _)
AddCarry(a, b, i, c) ==
    IF i = 0 THEN <<c>>
    ELSE Append(AddCarry(a, b, i - 1, (a[i] + b[i] + c) \div LimbBase),
                (a[i] + b[i] + c) % LimbBase)

\* a + b
AddBits(a, b) ==
    LET n == IF Len(a) > Len(b) THEN LimbCount(a) ELSE LimbCount(b)
    IN  FromLimbs(AddCarry(Limbs(a, n), Limbs(b, n), n, 0))

\* The limbs of a[1..i] * k + c, three limbs longer
RECURSIVE MulCarry(_, _, _, _)
MulCarry(a, k, i, c) ==
    IF i = 0 THEN Limbs(NatBits(c), 3)
    ELSE Append(MulCarry(a, k, i - 1, (a[i] * k + c) \div LimbBase),
                (a[i] * k + c) % LimbBase)

\* b * k, for an integer 0 <= k < 2^21
MulSmall(b, k) == FromLimbs(MulCarry(Limbs(b, LimbCount(b)), k, LimbCount(b), 0))

RECURSIVE DivStep(_, _, _, _, _)
DivStep(a, q, i, r, acc) ==
    IF i > Len(a) THEN [quot |-> FromLimbs(acc), rem |-> r]
    ELSE DivStep(a, q, i + 1, (LimbBase * r + a[i]) % q,
                 Append(acc, (LimbBase * r + a[i]) \div q))

\* floor(b / q) and b mod q, for an integer 0 < q < 2^21
DivSmall(b, q) == DivStep(Limbs(b, LimbCount(b)), q, 1, 0, <<>>)

(***************************************************************************)
(* f64: a non-negative finite binary64 value is [m |-> bits, e |-> int],   *)
(* standing for m * 2^e, kept with no leading and no trailing zero bit so  *)
(* that equal values are equal records.  The values met here lie between   *)
(* 2^-60 and 2^40, far from the subnormal and the overflow range.          *)
(***************************************************************************)
Precision == 53

\* The number of zero bits at the end of b, b not all zero
TrailingZeros(b) ==
    LET l == CHOOSE i \in 1..Len(b) : b[i] = 1 /\ \A j \in (i + 1)..Len(b) : b[j] = 0
    IN  Len(b) - l

Canon(b, e) ==
    LET m == StripZeros(b)
    IN  IF m = <<>> THEN [m |-> <<>>, e |-> 0]
        ELSE [m |-> SubSeq(m, 1, Len(m) - TrailingZeros(m)),
              e |-> e + TrailingZeros(m)]

\* The exact value b * 2^e (plus, when sticky, a positive amount below one
\* unit of b's last bit) rounded to Precision bits, ties to even.
RoundNearestEven(b, e, sticky) ==
    LET m == StripZeros(b)
        n == Len(m)
    IN  IF n <= Precision THEN Canon(m, e)
        ELSE LET keep == SubSeq(m, 1, Precision)
                 guard == m[Precision + 1]
                 rest == sticky \/ \E i \in (Precision + 2)..n : m[i] = 1
                 up == guard = 1 /\ (rest \/ keep[Precision] = 1)
             IN  Canon(IF up THEN AddBits(keep, <<1>>) ELSE keep,
                       e + n - Precision)

Min(a, b) == IF a < b THEN a ELSE b

\* n as f64, for an integer 0 <= n < 2^31 (exact)
FromInt(n) == Canon(NatBits(n), 0)

\* x + y
FAdd(x, y) ==
    IF x.m = <<>> THEN y
    ELSE IF y.m = <<>> THEN x
    ELSE LET e == Min(x.e, y.e)
         IN  RoundNearestEven(AddBits(ShiftLeft(x.m, x.e - e),
                                      ShiftLeft(y.m, y.e - e)), e, FALSE)

\* x * y, the mantissa of y below 2^21
FMul(x, y) ==
    IF x.m = <<>> \/ y.m = <<>> THEN FromInt(0)
    ELSE RoundNearestEven(MulSmall(x.m, BitsNat(y.m)), x.e + y.e, FALSE)

\* x / y, the mantissa of y below 2^21: by a power of two the quotient is
\* exact; otherwise it is computed to at least Precision + 2 bits, the
\* remainder giving the sticky bit.
FDiv(x, y) ==
    IF x.m = <<>> THEN x
    ELSE IF y.m = <<1>> THEN [m |-> x.m, e |-> x.e - y.e]
    ELSE LET pad == Precision + 2 + Len(y.m)
             d == DivSmall(ShiftLeft(x.m, pad), BitsNat(y.m))
         IN  RoundNearestEven(d.quot, x.e - pad - y.e, d.rem # 0)

\* x % y (fmod, exact), y at the common exponent below 2^21
FRem(x, y) ==
    IF x.m = <<>> THEN x
    ELSE LET e == Min(x.e, y.e)
             d == DivSmall(ShiftLeft(x.m, x.e - e),
                           BitsNat(ShiftLeft(y.m, y.e - e)))
         IN  Canon(NatBits(d.rem), e)

\* A plausible slip: x.ceil() for x.floor()
FCeil(x) ==
    IF x.e >= 0 THEN x
    ELSE RoundNearestEven(AddBits(ShiftRight(x.m, 0 - x.e), <<1>>), 0, FALSE)

\* x.floor()
FFloor(x) == IF x.e >= 0 THEN x ELSE Canon(ShiftRight(x.m, 0 - x.e), 0)

\* The integer part of x, below 2^31
Trunc(x) ==
    BitsNat(IF x.e >= 0 THEN ShiftLeft(x.m, x.e) ELSE ShiftRight(x.m, 0 - x.e))

\* x as u8: the integer part, saturating
AsU8(x) == LET v == Trunc(x) IN IF v > 255 THEN 255 ELSE v

\* x as u32: the integer part (every value met here is below 2^31)
AsU32(x) == Trunc(x)

(***************************************************************************)
(* The values.                                                             *)
(***************************************************************************)
\* Option<T>: None is the empty set and Some(v) the set of v alone
None == {}

Some(v) == {v}

unwrap(o) == CHOOSE v \in o : TRUE

\* Result<T, E>, and the outcome of a call that may panic
Ok(v) == [ok |-> TRUE, value |-> v]

Err(e) == [ok |-> FALSE, value |-> e]

InvalidConversion == "InvalidConversion"

Panic == "panic"

LightningTime(b, z, s, c, sc) ==
    [bolts |-> b, zaps |-> z, sparks |-> s, charges |-> c, subcharges |-> sc]

\* chrono::NaiveTime: seconds since midnight and the nanosecond part
NaiveTime(secs, frac) == [secs |-> secs, frac |-> frac]

hour(t) == t.secs \div 3600
minute(t) == (t.secs \div 60) % 60
second(t) == t.secs % 60
nanosecond(t) == t.frac

\* NaiveTime::from_num_seconds_from_midnight_opt
from_num_seconds_from_midnight_opt(secs, nano) ==
    IF secs >= 86400 \/ nano >= 2000000000 THEN None ELSE Some(NaiveTime(secs, nano))

\* A plausible slip: the day divided by 16^4
MillisPerCharge == FDiv(FromInt(86400000), FromInt(65536))

MILLIS_PER_SUBCHARGE == FDiv(FromInt(86400000), FromInt(1048576))

\* The f64 literals of the conversions
MillisPerHour == FMul(FMul(FromInt(1000), FromInt(60)), FromInt(60))

MillisPerMinute == FMul(FromInt(1000), FromInt(60))

MillisPerSecond == FromInt(1000)

NanosPerMilli == FromInt(1000000)

Sixteen == FromInt(16)

\* A plausible slip: (x.round() % 16.) as u8
NibbleRounded(x) == AsU8(FRem(FFloor(FAdd(x, [m |-> <<1>>, e |-> 0 - 1])), Sixteen))

\* A plausible slip: x.floor() as u8, the % 16. left out
NibbleNoRem(x) == AsU8(FFloor(x))

\* (x.floor() % 16.) as u8
Nibble(x) == AsU8(FRem(FFloor(x), Sixteen))

\* impl From<NaiveTime> for LightningTime
FromNaiveTime(value) ==
    LET millis ==
            FAdd(FAdd(FAdd(FMul(MillisPerHour, FromInt(hour(value))),
                           FMul(MillisPerMinute, FromInt(minute(value)))),
                      FMul(MillisPerSecond, FromInt(second(value)))),
                 FDiv(FromInt(nanosecond(value)), NanosPerMilli))
        total_subcharges == FDiv(millis, MILLIS_PER_SUBCHARGE)
        total_charges == FDiv(total_subcharges, Sixteen)
        total_sparks == FDiv(total_charges, Sixteen)
        total_zaps == FDiv(total_sparks, Sixteen)
        total_bolts == FDiv(total_zaps, Sixteen)
    IN  [bolts |-> Nibble(total_bolts),
         sparks |-> Nibble(total_sparks),
         zaps |-> Nibble(total_zaps),
         charges |-> Nibble(total_charges),
         subcharges |-> Nibble(total_subcharges)]

\* A plausible slip: sparks taken before zaps
ElapsedSparksFirst(value) ==
    (((value.bolts * 16 + value.sparks) * 16 + value.zaps) * 16 + value.charges) * 16
        + value.subcharges

\* elapsed: usize, at most 17,825,775 for fields of a byte
Elapsed(value) ==
    (((value.bolts * 16 + value.zaps) * 16 + value.sparks) * 16 + value.charges) * 16
        + value.subcharges

\* Option::expect
expect(o) == IF o = None THEN Err(Panic) ELSE Ok(unwrap(o))

\* impl From<LightningTime> for NaiveTime: Ok(time), or Err(Panic)
IntoNaiveTime(value) ==
    LET elapsed == FromInt(Elapsed(value))
        millis == FMul(elapsed, MILLIS_PER_SUBCHARGE)
        seconds == FDiv(millis, MillisPerSecond)
        leftover_millis == FRem(millis, MillisPerSecond)
    IN  expect(from_num_seconds_from_midnight_opt(
            AsU32(seconds), AsU32(FMul(leftover_millis, NanosPerMilli))))

(***************************************************************************)
(* Text: a string is a sequence of one-character strings.                  *)
(***************************************************************************)
LowerHex == <<"0", "1", "2", "3", "4", "5", "6", "7", "8", "9",
              "a", "b", "c", "d", "e", "f">>

UpperHex == <<"0", "1", "2", "3", "4", "5", "6", "7", "8", "9",
              "A", "B", "C", "D", "E", "F">>

\* [[:xdigit:]]
IsXDigit(c) == \E i \in 1..16 : LowerHex[i] = c \/ UpperHex[i] = c

\* u8::from_str_radix(c, 16) of one hexadecimal digit
from_str_radix(c) == (CHOOSE i \in 1..16 : LowerHex[i] = c \/ UpperHex[i] = c) - 1

\* {:x} of a u8: lower case, no padding
LowerHexFmt(n) ==
    IF n < 16 THEN <<LowerHex[n + 1]>>
    ELSE <<LowerHex[n \div 16 + 1], LowerHex[(n % 16) + 1]>>

\* impl Display for LightningTime
Display(self) ==
    LowerHexFmt(self.bolts) \o <<"~">> \o LowerHexFmt(self.zaps) \o <<"~">>
        \o LowerHexFmt(self.sparks) \o <<"|">> \o LowerHexFmt(self.charges)
        \o LowerHexFmt(self.subcharges)

\* LightningTime::to_stripped_string
to_stripped_string(self) ==
    LowerHexFmt(self.bolts) \o <<"~">> \o LowerHexFmt(self.zaps) \o <<"~">>
        \o LowerHexFmt(self.sparks)

\* The three required groups of RE match s at position i
MatchesAt(s, i) ==
    /\ i + 4 <= Len(s)
    /\ IsXDigit(s[i])
    /\ s[i + 1] = "~"
    /\ IsXDigit(s[i + 2])
    /\ s[i + 3] = "~"
    /\ IsXDigit(s[i + 4])

\* re.captures(s): the leftmost match of the unanchored RE, its optional
\* groups taken greedily; None when no position matches
captures(s) ==
    IF \A i \in 1..Len(s) : ~MatchesAt(s, i) THEN None
    ELSE LET i == CHOOSE k \in 1..Len(s) :
                      MatchesAt(s, k) /\ \A j \in 1..(k - 1) : ~MatchesAt(s, j)
             hasCharge == i + 6 <= Len(s) /\ s[i + 5] = "|" /\ IsXDigit(s[i + 6])
             hasSub == hasCharge /\ i + 7 <= Len(s) /\ IsXDigit(s[i + 7])
         IN  Some([bolt |-> s[i], spark |-> s[i + 2], zap |-> s[i + 4],
                   charge |-> IF hasCharge THEN Some(s[i + 6]) ELSE None,
                   subcharge |-> IF hasSub THEN Some(s[i + 7]) ELSE None])

\* caps.len(): the groups of RE, the whole match included
CapsLen == 6

\* A plausible slip: the second group read as zaps and the third as sparks
from_str_in_order(s) ==
    IF captures(s) = None THEN Err(InvalidConversion)
    ELSE LET caps == unwrap(captures(s))
         IN  Ok([bolts |-> from_str_radix(caps.bolt),
                 zaps |-> from_str_radix(caps.spark),
                 sparks |-> from_str_radix(caps.zap),
                 charges |-> IF caps.charge = None THEN 0
                             ELSE from_str_radix(unwrap(caps.charge)),
                 subcharges |-> IF caps.subcharge = None THEN 0
                                ELSE from_str_radix(unwrap(caps.subcharge))])

\* impl FromStr for LightningTime
from_str(s) ==
    IF captures(s) = None THEN Err(InvalidConversion)
    ELSE LET caps == unwrap(captures(s))
         IN  IF CapsLen < 3 THEN Err(InvalidConversion)
             ELSE Ok([bolts |-> from_str_radix(caps.bolt),
                      zaps |-> from_str_radix(caps.zap),
                      sparks |-> from_str_radix(caps.spark),
                      charges |-> IF caps.charge = None THEN 0
                                  ELSE from_str_radix(unwrap(caps.charge)),
                      subcharges |-> IF caps.subcharge = None THEN 0
                                     ELSE from_str_radix(unwrap(caps.subcharge))])

(***************************************************************************)
(* Colors.  hi * 16 + lo is computed in u8: past 255 a build with overflow *)
(* checks panics and a build without them wraps.                           *)
(***************************************************************************)
LightningBaseColors(a, b) == <<a, b>>

\* impl Default for LightningTimeColorConfig
DefaultColorConfig ==
    [bolt |-> LightningBaseColors(161, 0),
     zap |-> LightningBaseColors(50, 214),
     spark |-> LightningBaseColors(246, 133)]

Srgb(r, g, b) == <<r, g, b>>

Overflows(hi, lo) == hi * 16 > 255 \/ hi * 16 + lo > 255

Packed(hi, lo) == (hi * 16 + lo) % 256

\* A plausible slip: the spark color packed from charges and subcharges
colors_one_digit_on(self, config, overflow_checks) ==
    Ok([bolt |-> Srgb(Packed(self.bolts, self.zaps), config.bolt[1], config.bolt[2]),
        zap |-> Srgb(config.zap[1], Packed(self.zaps, self.sparks), config.zap[2]),
        spark |-> Srgb(config.spark[1], config.spark[2],
                       Packed(self.charges, self.subcharges))])

\* LightningTime::colors
colors(self, config, overflow_checks) ==
    IF overflow_checks /\ (\/ Overflows(self.bolts, self.zaps)
                           \/ Overflows(self.zaps, self.sparks)
                           \/ Overflows(self.sparks, self.charges))
    THEN Err(Panic)
    ELSE Ok([bolt |-> Srgb(Packed(self.bolts, self.zaps), config.bolt[1], config.bolt[2]),
             zap |-> Srgb(config.zap[1], Packed(self.zaps, self.sparks), config.zap[2]),
             spark |-> Srgb(config.spark[1], config.spark[2],
                            Packed(self.sparks, self.charges))])

(***************************************************************************)
(* The inputs the model draws.                                             *)
(***************************************************************************)
NumNibbleSamples == 3

NumHexSamples == 3

MaxChain == 2

NibbleOrder == <<0, 15, 8, 1, 7, 10, 2, 13, 4, 11, 5, 14, 3, 12, 6, 9>>

\* Digit values in 0..15
NibbleSamples == {NibbleOrder[i] : i \in 1..Min(NumNibbleSamples, 16)}

\* Values of a u8 field: the sampled digits and two values past 15
ByteSamples == NibbleSamples \cup {16, 255}

NibbleTimes ==
    {LightningTime(b, z, s, c, sc) : b \in NibbleSamples, z \in NibbleSamples,
        s \in NibbleSamples, c \in NibbleSamples, sc \in NibbleSamples}

\* The value the five digits encode, bolts the most significant
Encoded(l) ==
    (((l.bolts * 16 + l.zaps) * 16 + l.sparks) * 16 + l.charges) * 16 + l.subcharges

\* The time of day d nanoseconds after t, None when it leaves the day
PlusNanos(t, d) ==
    IF t.frac + d < 0 THEN
        IF t.secs = 0 THEN None
        ELSE Some(NaiveTime(t.secs - 1, t.frac + d + 1000000000))
    ELSE IF t.frac + d >= 1000000000 THEN
        IF t.secs = 86399 THEN None
        ELSE Some(NaiveTime(t.secs + 1, t.frac + d - 1000000000))
    ELSE Some(NaiveTime(t.secs, t.frac + d))

\* The last whole nanosecond at or before the start of tick n, for
\* 0 <= n < 16^5: n * 86400 / 16^5 seconds is n * 675 / 8192 seconds, and
\* 1/8192 s is 1953125/16 ns.
TickTime(n) ==
    LET r == (n * 675) % 8192
        x == r * 15625
    IN  NaiveTime((n * 675) \div 8192, (x \div 16) * 125 + ((x % 16) * 125) \div 16)

\* Times of day at and next to the tick boundaries of the sampled digits
BoundaryTimes ==
    UNION {PlusNanos(TickTime(Encoded(l)), d) : l \in NibbleTimes, d \in {0 - 1, 0, 1}}

GridTimes ==
    {NaiveTime(h * 3600 + m * 60 + sec, ns) :
        h \in {0, 12, 23}, m \in {0, 59}, sec \in {0, 1, 59},
        ns \in {0, 1, 500000000, 999999999}}

TimeInputs == BoundaryTimes \cup GridTimes

HexOrder == <<"f", "3", "A", "a", "8", "c", "0", "E", "9", "b", "D", "1", "7",
              "5", "F", "2", "4", "6", "d", "e", "B", "C">>

HexSamples == {HexOrder[i] : i \in 1..Min(NumHexSamples, 22)}

\* Every text of the grammar over the sampled digits
GrammarTexts ==
    LET tails == {<<>>} \cup {<<"|", d>> : d \in HexSamples}
                     \cup {<<"|", d, e>> : d \in HexSamples, e \in HexSamples}
    IN  {<<a, "~", b, "~", c>> \o t :
            a \in HexSamples, b \in HexSamples, c \in HexSamples, t \in tails}

\* The texts of tests::parse
TestTexts ==
    {<<"f", "~", "3", "~", "a", "|", "8", "c">>, <<"f", "~", "3", "~", "a", "|", "8">>,
     <<"f", "~", "3", "~", "a">>, <<"f", "~", "~", "|">>}

StrayChars == {"x", "~", "|", "7", " "}

\* The test texts with one character inserted, removed or replaced
EditedTexts ==
    UNION {
        {SubSeq(t, 1, p) \o <<c>> \o SubSeq(t, p + 1, Len(t)) :
            p \in 0..Len(t), c \in StrayChars}
        \cup {SubSeq(t, 1, p - 1) \o SubSeq(t, p + 1, Len(t)) : p \in 1..Len(t)}
        \cup {SubSeq(t, 1, p - 1) \o <<c>> \o SubSeq(t, p + 1, Len(t)) :
            p \in 1..Len(t), c \in StrayChars}
        : t \in TestTexts}

TextInputs == GrammarTexts \cup TestTexts \cup EditedTexts \cup {<<>>}

\* A color scheme other than the default
OtherColorConfig ==
    [bolt |-> LightningBaseColors(255, 7),
     zap |-> LightningBaseColors(0, 255),
     spark |-> LightningBaseColors(18, 52)]

ColorConfigs == {DefaultColorConfig, OtherColorConfig}

(***************************************************************************)
(* The state: the value at hand, which is a LightningTime, a NaiveTime, a  *)
(* text or the colors, or the error the last conversion ended with, and    *)
(* the conversions made since the value was put in.                        *)
(***************************************************************************)
VARIABLES
    lt,     \* the LightningTime at hand, or None
    nt,     \* the NaiveTime at hand, or None
    text,   \* the text at hand, or None
    cols,   \* the LightningTimeColors at hand, or None
    err,    \* "ok", InvalidConversion or Panic
    hist    \* the conversions since the input: [op, arg, res]

vars == <<lt, nt, text, cols, err, hist>>

Init ==
    /\ lt = None
    /\ nt = None
    /\ text = None
    /\ cols = None
    /\ err = "ok"
    /\ hist = <<>>

Step(op, arg, res) == [op |-> op, arg |-> arg, res |-> res]

CanConvert == err = "ok" /\ Len(hist) < MaxChain

\* Nothing is at hand yet: a value is put in once, at the start
Empty == lt = None /\ nt = None /\ text = None /\ cols = None /\ hist = <<>>

\* LightningTime::new(bolts, zaps, sparks, charges)
New ==
    /\ Empty
    /\ \E bolts \in ByteSamples, zaps \in ByteSamples, sparks \in ByteSamples,
          charges \in ByteSamples :
           lt' = Some(LightningTime(bolts, zaps, sparks, charges, 0))
    /\ UNCHANGED <<nt, text, cols, err, hist>>

\* LightningTime { bolts, zaps, sparks, charges, subcharges }: the fields are pub
Literal ==
    /\ Empty
    /\ \E l \in NibbleTimes : lt' = Some(l)
    /\ UNCHANGED <<nt, text, cols, err, hist>>

\* LightningTime::default()
Default ==
    /\ Empty
    /\ lt' = Some(LightningTime(0, 0, 0, 0, 0))
    /\ UNCHANGED <<nt, text, cols, err, hist>>

\* A time of day handed in: Local::now() of LightningTime::now, or the
\* parsed argument of the From subcommand
TimeInput ==
    /\ Empty
    /\ \E t \in TimeInputs : nt' = Some(t)
    /\ UNCHANGED <<lt, text, cols, err, hist>>

\* A text handed in: the argument of the To and Colors subcommands
TextInput ==
    /\ Empty
    /\ \E s \in TextInputs : text' = Some(s)
    /\ UNCHANGED <<lt, nt, cols, err, hist>>

\* LightningTime::from(nt)
FromNaive ==
    /\ CanConvert
    /\ nt # None
    /\ \E r \in {FromNaiveTime(unwrap(nt))} :
           /\ lt' = Some(r)
           /\ hist' = Append(hist, Step("from_naive", unwrap(nt), r))
    /\ nt' = None
    /\ UNCHANGED <<text, cols, err>>

\* NaiveTime::from(lt)
IntoNaive ==
    /\ CanConvert
    /\ lt # None
    /\ \E r \in {IntoNaiveTime(unwrap(lt))} :
           /\ nt' = IF r.ok THEN Some(r.value) ELSE None
           /\ err' = IF r.ok THEN "ok" ELSE r.value
           /\ hist' = Append(hist, Step("into_naive", unwrap(lt), r))
    /\ lt' = None
    /\ UNCHANGED <<text, cols>>

\* LightningTime::from_str(text)
FromStr ==
    /\ CanConvert
    /\ text # None
    /\ \E r \in {from_str(unwrap(text))} :
           /\ lt' = IF r.ok THEN Some(r.value) ELSE None
           /\ err' = IF r.ok THEN "ok" ELSE r.value
           /\ hist' = Append(hist, Step("from_str", unwrap(text), r))
    /\ text' = None
    /\ UNCHANGED <<nt, cols>>

\* lt.to_string(), which is Display::fmt
Fmt ==
    /\ CanConvert
    /\ lt # None
    /\ \E r \in {Display(unwrap(lt))} :
           /\ text' = Some(r)
           /\ hist' = Append(hist, Step("to_string", unwrap(lt), r))
    /\ lt' = None
    /\ UNCHANGED <<nt, cols, err>>

\* lt.to_stripped_string()
ToStrippedString ==
    /\ CanConvert
    /\ lt # None
    /\ \E r \in {to_stripped_string(unwrap(lt))} :
           /\ text' = Some(r)
           /\ hist' = Append(hist, Step("to_stripped_string", unwrap(lt), r))
    /\ lt' = None
    /\ UNCHANGED <<nt, cols, err>>

\* lt.colors(&config), in a build with or without overflow checks
Colors(config, overflow_checks) ==
    /\ CanConvert
    /\ lt # None
    /\ \E r \in {colors(unwrap(lt), config, overflow_checks)} :
           /\ cols' = IF r.ok THEN Some(r.value) ELSE None
           /\ err' = IF r.ok THEN "ok" ELSE r.value
           /\ hist' = Append(hist, Step("colors",
                                        [self |-> unwrap(lt), config |-> config], r))
    /\ lt' = None
    /\ UNCHANGED <<nt, text>>

Next ==
    \/ New
    \/ Literal
    \/ Default
    \/ TimeInput
    \/ TextInput
    \/ FromNaive
    \/ IntoNaive
    \/ FromStr
    \/ Fmt
    \/ ToStrippedString
    \/ \E config \in ColorConfigs, overflow_checks \in BOOLEAN :
           Colors(config, overflow_checks)

Spec == Init /\ [][Next]_vars

(***************************************************************************)
(* What the claims speak of, stated apart from the model of the code.      *)
(***************************************************************************)
Fields == {"bolts", "zaps", "sparks", "charges", "subcharges"}

\* Each of the five fields is in 0..15
NibblesOK(l) == \A f \in Fields : l[f] \in 0..15

\* The five base-16 digits of n, 0 <= n < 16^5, most significant first
DigitsOf(n) ==
    [bolts |-> (n \div 65536) % 16, zaps |-> (n \div 4096) % 16,
     sparks |-> (n \div 256) % 16, charges |-> (n \div 16) % 16,
     subcharges |-> n % 16]

\* The nanoseconds of t since midnight
DayNanos(t) ==
    AddBits(MulSmall(MulSmall(MulSmall(NatBits(t.secs), 1000), 1000), 1000),
            NatBits(t.frac))

\* floor(t * 16^5 / 86,400,000,000,000) for t nanoseconds since midnight, in
\* integers: the divisor is 86400 * 1000 * 1000 * 1000
ReferenceTick(t) ==
    BitsNat(DivSmall(DivSmall(DivSmall(DivSmall(ShiftLeft(DayNanos(t), 20),
        86400).quot, 1000).quot, 1000).quot, 1000).quot)

HexChars ==
    {"0", "1", "2", "3", "4", "5", "6", "7", "8", "9", "a", "b", "c", "d", "e", "f",
     "A", "B", "C", "D", "E", "F"}

\* The value of one hexadecimal digit, either case
HexValue(c) ==
    CASE c = "0" -> 0 [] c = "1" -> 1 [] c = "2" -> 2 [] c = "3" -> 3
      [] c = "4" -> 4 [] c = "5" -> 5 [] c = "6" -> 6 [] c = "7" -> 7
      [] c = "8" -> 8 [] c = "9" -> 9
      [] c \in {"a", "A"} -> 10 [] c \in {"b", "B"} -> 11
      [] c \in {"c", "C"} -> 12 [] c \in {"d", "D"} -> 13
      [] c \in {"e", "E"} -> 14 [] c \in {"f", "F"} -> 15

\* s is exactly h~h~h, h~h~h|h or h~h~h|hh
InGrammar(s) ==
    /\ Len(s) \in {5, 7, 8}
    /\ s[1] \in HexChars /\ s[2] = "~" /\ s[3] \in HexChars /\ s[4] = "~"
    /\ s[5] \in HexChars
    /\ Len(s) >= 7 => s[6] = "|" /\ s[7] \in HexChars
    /\ Len(s) = 8 => s[8] \in HexChars

Steps == 1..Len(hist)

\* Step i is the conversion op1 and step i + 1 the conversion op2, made on
\* the result of step i
Chained(i, op1, op2) ==
    /\ i + 1 <= Len(hist)
    /\ hist[i].op = op1
    /\ hist[i + 1].op = op2

(***************************************************************************)
(* The claims.                                                             *)
(***************************************************************************)

\* C1, as stated: for every LightningTime with its five fields in 0..15,
\* NaiveTime::from and then LightningTime::from give back the same five
\* digits.
C1_DigitRoundTrip ==
    \A i \in Steps :
        Chained(i, "into_naive", "from_naive") /\ NibblesOK(hist[i].arg)
            => hist[i + 1].res = hist[i].arg

\* C1, amended: the same five digits come back when subcharges is 0, where
\* the tick starts on a whole nanosecond; when subcharges is 1..15 the
\* truncated nanosecond lies before the tick and the digits that come back
\* encode the value one less.
C1_DigitRoundTripAmended ==
    \A i \in Steps :
        Chained(i, "into_naive", "from_naive") /\ NibblesOK(hist[i].arg)
            => /\ NibblesOK(hist[i + 1].res)
               /\ hist[i].arg.subcharges = 0 => hist[i + 1].res = hist[i].arg
               /\ hist[i].arg.subcharges # 0
                      => Encoded(hist[i + 1].res) = Encoded(hist[i].arg) - 1

C1_Witness ==
    /\ Chained(1, "into_naive", "from_naive")
    /\ NibblesOK(hist[1].arg)
    /\ hist[1].arg.subcharges = 0
    /\ hist[1].arg.charges = 15
    /\ hist[2].res = hist[1].arg

\* C2, as stated: for every valid time of day, LightningTime::from and then
\* NaiveTime::from give a time with the same second of the day.
C2_SameSecondOfDay ==
    \A i \in Steps :
        Chained(i, "from_naive", "into_naive")
            => /\ hist[i + 1].res.ok
               /\ hist[i + 1].res.value.secs = hist[i].arg.secs

\* C2, amended: the time that comes back is never later than the input and
\* at most 82,397,461 ns (one tick, and the truncated nanosecond) earlier, so
\* its second of the day is the input's or the one before.
C2_WithinOneTickEarlier ==
    \A i \in Steps :
        Chained(i, "from_naive", "into_naive")
            => /\ hist[i + 1].res.ok
               /\ LET t == hist[i].arg
                      u == hist[i + 1].res.value
                  IN  \/ /\ u.secs = t.secs
                         /\ u.frac <= t.frac
                         /\ t.frac - u.frac <= 82397461
                      \/ /\ u.secs = t.secs - 1
                         /\ t.frac - u.frac + 1000000000 <= 82397461

C2_Witness ==
    /\ Chained(1, "from_naive", "into_naive")
    /\ hist[1].arg = NaiveTime(1, 0)
    /\ hist[2].res.ok
    /\ hist[2].res.value.secs = 0

\* C3: for every text that is not exactly h~h~h, h~h~h|h or h~h~h|hh, from_str
\* returns the error InvalidConversion and no LightningTime.
C3_RejectsOutsideGrammar ==
    \A i \in Steps :
        hist[i].op = "from_str" /\ ~InGrammar(hist[i].arg)
            => hist[i].res = Err(InvalidConversion)

\* C4: for every LightningTime x with its five fields in 0..15, from_str of
\* the text to_string gives for x succeeds and returns x.
C4_FormatParseSymmetric ==
    \A i \in Steps :
        Chained(i, "to_string", "from_str") /\ NibblesOK(hist[i].arg)
            => hist[i + 1].res = Ok(hist[i].arg)

\* C5: for every valid time of day, t nanoseconds after midnight, the fields
\* LightningTime::from returns are the five base-16 digits of
\* floor(t * 16^5 / 86,400,000,000,000); midnight gives all zeros and
\* 12:00:00 gives bolts = 8 and zeros.
C5_FromNaiveIsIntegerReference ==
    \A i \in Steps :
        hist[i].op = "from_naive"
            => /\ hist[i].res = DigitsOf(ReferenceTick(hist[i].arg))
               /\ hist[i].arg = NaiveTime(0, 0)
                      => hist[i].res = LightningTime(0, 0, 0, 0, 0)
               /\ hist[i].arg = NaiveTime(12 * 3600, 0)
                      => hist[i].res = LightningTime(8, 0, 0, 0, 0)

C5_Witness ==
    /\ Len(hist) = 1
    /\ hist[1].op = "from_naive"
    /\ hist[1].arg.frac % 1000000 # 0
    /\ hist[1].res.bolts = 15
    /\ hist[1].res.subcharges = 8

\* C6: for every valid time of day LightningTime::from returns a
\* LightningTime whose five fields are each in 0..15.
C6_FromNaiveInRange ==
    \A i \in Steps : hist[i].op = "from_naive" => NibblesOK(hist[i].res)

C6_Witness ==
    /\ Len(hist) = 1
    /\ hist[1].op = "from_naive"
    /\ hist[1].arg = NaiveTime(23 * 3600 + 59 * 60 + 59, 999999999)
    /\ hist[1].res = LightningTime(15, 15, 15, 15, 15)

\* C7: for every LightningTime with its five fields in 0..15, NaiveTime::from
\* does not panic and returns the time whose second of the day is
\* floor(elapsed * 86,400 / 16^5), at most 86,399, with a nanosecond part
\* below 1,000,000,000.  (86,400 / 16^5 is 675 / 8192.)
C7_IntoNaiveNeverFails ==
    \A i \in Steps :
        hist[i].op = "into_naive" /\ NibblesOK(hist[i].arg)
            => /\ hist[i].res.ok
               /\ hist[i].res.value.secs = (Encoded(hist[i].arg) * 675) \div 8192
               /\ hist[i].res.value.secs <= 86399
               /\ hist[i].res.value.frac < 1000000000

C7_Witness ==
    /\ Len(hist) = 1
    /\ hist[1].op = "into_naive"
    /\ hist[1].arg = LightningTime(15, 15, 15, 15, 15)
    /\ hist[1].res.ok
    /\ hist[1].res.value.secs = 86399

\* C8: for every LightningTime with its fields in 0..15 and every color
\* scheme, colors returns bolt = (bolts*16+zaps, bolt.0, bolt.1),
\* zap = (zap.0, zaps*16+sparks, zap.1) and spark = (spark.0, spark.1,
\* sparks*16+charges), each channel a byte; subcharges takes no part.
C8_ColorsDerivation ==
    \A i \in Steps :
        hist[i].op = "colors" /\ NibblesOK(hist[i].arg.self)
            => LET x == hist[i].arg.self
                   scheme == hist[i].arg.config
               IN  /\ hist[i].res.ok
                   /\ hist[i].res.value.bolt
                          = <<x.bolts * 16 + x.zaps, scheme.bolt[1], scheme.bolt[2]>>
                   /\ hist[i].res.value.zap
                          = <<scheme.zap[1], x.zaps * 16 + x.sparks, scheme.zap[2]>>
                   /\ hist[i].res.value.spark
                          = <<scheme.spark[1], scheme.spark[2], x.sparks * 16 + x.charges>>
                   /\ \A c \in {"bolt", "zap", "spark"} :
                          \A k \in 1..3 : hist[i].res.value[c][k] \in 0..255

C8_Witness ==
    /\ Len(hist) = 1
    /\ hist[1].op = "colors"
    /\ hist[1].arg.self = LightningTime(8, 0, 0, 0, 15)
    /\ hist[1].arg.config = DefaultColorConfig
    /\ hist[1].res.ok
    /\ hist[1].res.value
           = [bolt |-> <<128, 161, 0>>, zap |-> <<50, 0, 214>>, spark |-> <<246, 133, 0>>]

\* C9: every LightningTime obtained from new, from a literal, from
\* default, from LightningTime::from or from a successful from_str has each
\* of its five fields in 0..15.
C9_NibbleInvariant == lt # None => NibblesOK(unwrap(lt))

\* C10: for every text a~b~c, a~b~c|d or a~b~c|de of hexadecimal digits of
\* either case, from_str succeeds and returns bolts = a, sparks = b,
\* zaps = c, charges = d and subcharges = e, a missing d or e giving 0; so
\* "f~3~a" gives sparks = 3 and zaps = 10, and to_string of it "f~a~3|00".
C10_ParseResultMapping ==
    \A i \in Steps :
        hist[i].op = "from_str" /\ InGrammar(hist[i].arg)
            => LET s == hist[i].arg
               IN  /\ hist[i].res
                          = Ok([bolts |-> HexValue(s[1]),
                                sparks |-> HexValue(s[3]),
                                zaps |-> HexValue(s[5]),
                                charges |-> IF Len(s) >= 7 THEN HexValue(s[7]) ELSE 0,
                                subcharges |-> IF Len(s) = 8 THEN HexValue(s[8]) ELSE 0])
                   /\ s = <<"f", "~", "3", "~", "a">>
                          => /\ hist[i].res.value.sparks = 3
                             /\ hist[i].res.value.zaps = 10
                             /\ Chained(i, "from_str", "to_string")
                                    => hist[i + 1].res
                                           = <<"f", "~", "a", "~", "3", "|", "0", "0">>

C10_Witness ==
    /\ Chained(1, "from_str", "to_string")
    /\ hist[1].arg = <<"f", "~", "3", "~", "a">>
    /\ hist[1].res.ok
    /\ hist[2].res = <<"f", "~", "a", "~", "3", "|", "0", "0">>

====
